---- MODULE Spec2Model ----
(***************************************************************************)
(* Multi-scale metapopulation SIRS simulation (msmp_simulation.py).        *)
(*                                                                         *)
(* Probabilities and random samples are fixed-point numbers in thousandths *)
(* (0.5 is 500); a random.random() sample lies in 0..999.  A typed input   *)
(* is the sequence of its decimal digits ("100" is <<1, 0, 0>>).           *)
(* graphs is a sequence, so Python's graphs[k] is graphs[k + 1] here.      *)
(***************************************************************************)
EXTENDS Integers, Sequences, FiniteSets, TLC

(***************************************************************************)
(* Bounds of the model.                                                    *)
(***************************************************************************)
\* most samples of the update passes of a run that fall below the
\* probability they are compared with (moves, recoveries, relapses, infections)
MaxEvents == 2
\* largest compartment count handed to generateErdosRenyi when called alone
MaxCount == 2

\* the digit strings typed at the four percentage prompts, in the order
\* contact, infection, recovery, move: "100" and "0", and a "101" that the
\* prompt refuses
TypedPercents ==
  {<<<<1, 0, 0>>, <<1, 0, 0>>, <<1, 0, 0>>, <<1, 0, 0>>>>,
   <<<<1, 0, 0>>, <<1, 0, 0>>, <<1, 0, 0>>, <<0>>>>,
   <<<<1, 0, 0>>, <<1, 0, 0>>, <<0>>, <<0>>>>,
   <<<<1, 0, 0>>, <<0>>, <<0>>, <<1, 0, 0>>>>,
   <<<<0>>, <<0>>, <<0>>, <<0>>>>,
   <<<<1, 0, 1>>, <<1, 0, 0>>, <<1, 0, 0>>, <<1, 0, 0>>>>}
\* the digit strings typed at the population prompt: "0", "1", "2", and a
\* "51" that the prompt refuses
TypedPopulations == {<<0>>, <<1>>, <<2>>, <<5, 1>>}
\* the digit strings typed at the iteration prompt
TypedIterations == {<<0>>, <<1>>, <<2>>}
\* values random.random() takes in the update pass
Samples == {0, 500, 501, 750, 751, 999}
\* values random.random() takes in findContextToMoveTo when called alone
FindSamples == 0..999
\* the samples random.random() yields, cyclically, in the edge loop of each
\* graph of one timestep
EdgeStreams == {<<0>>, <<999, 0>>}
\* contact probabilities handed to generateErdosRenyi when called alone
GenProbs == {0, 100, 500, 1000}

(***************************************************************************)
(* Program constants.                                                      *)
(***************************************************************************)
\* range(4) of the initialisation loop
NumGraphs == 4
\* the value a Python function returns when it falls off its end
None == 0

VARIABLES
  inp,                 \* what the user typed at the six prompts
  gamma, beta, recovery, move_probability, r_to_s, n, num_iter,
  graphs, global_susceptible, global_infected, global_recovered, timesteps,
  t, pc,
  curr_global_susceptible, curr_global_infected, curr_global_recovered,
  num_graph, idx, local_susceptible, local_infected, local_recovered,
  nodes_to_remove, new_context,
  events,              \* samples of the update passes that fell below their probability
  arrived,             \* history: <<group, node>> of the insertions of line 199 in this timestep
  infected_in_pass,    \* history: the nodes line 237 has labelled infected in this pass
  call                 \* a function called on its own: arguments and result

paramVars == <<inp, gamma, beta, recovery, move_probability, r_to_s, num_iter>>
seriesVars == <<global_susceptible, global_infected, global_recovered, timesteps>>
currVars == <<curr_global_susceptible, curr_global_infected, curr_global_recovered>>
localVars == <<num_graph, idx, local_susceptible, local_infected, local_recovered,
               nodes_to_remove, new_context>>
histVars == <<arrived, infected_in_pass>>
vars == <<paramVars, n, graphs, seriesVars, t, pc, currVars, localVars, events, call,
          histVars>>

(***************************************************************************)
(* Input validation and conversion.                                        *)
(***************************************************************************)
RECURSIVE int(_)
int(s) ==
  IF s = <<>> THEN 0 ELSE int(SubSeq(s, 1, Len(s) - 1)) * 10 + s[Len(s)]

\* str.isdigit(): a non-empty string of decimal digits
isdigit(s) ==
  s # <<>> /\ \A k \in 1..Len(s) : s[k] \in 0..9

\* the prompt loop of a percentage accepts s
AcceptsPercent(s) ==
  ~(~isdigit(s) \/ int(s) > 100 \/ int(s) < 0)

\* the prompt loop of the population accepts s
AcceptsPopulation(s) ==
  ~(~isdigit(s) \/ int(s) > 50 \/ int(s) < 0)

\* the prompt loop of the iteration count accepts s
AcceptsIterations(s) ==
  ~(~isdigit(s) \/ int(s) < 0)

\* float("0." + s) in thousandths, for a string of at most three digits
float0(s) ==
  (IF Len(s) >= 1 THEN s[1] * 100 ELSE 0)
  + (IF Len(s) >= 2 THEN s[2] * 10 ELSE 0)
  + (IF Len(s) >= 3 THEN s[3] ELSE 0)

(***************************************************************************)
(* networkx.Graph: nodes in insertion order, one label per node, edges as  *)
(* two-element sets.                                                       *)
(***************************************************************************)
EmptyGraph == [nodes |-> <<>>, label |-> <<>>, edges |-> {}]

NodeSet(G) == {G.nodes[k] : k \in 1..Len(G.nodes)}

\* G.add_node(node, label=lab): a node already present keeps its place and
\* its edges and has its label replaced
add_node(G, node, lab) ==
  [nodes |-> IF node \in NodeSet(G) THEN G.nodes ELSE Append(G.nodes, node),
   label |-> [x \in NodeSet(G) \cup {node} |-> IF x = node THEN lab ELSE G.label[x]],
   edges |-> G.edges]

\* G.remove_node(node): the node goes with its edges
remove_node(G, node) ==
  [nodes |-> SelectSeq(G.nodes, LAMBDA x : x # node),
   label |-> [x \in NodeSet(G) \ {node} |-> G.label[x]],
   edges |-> {e \in G.edges : node \notin e}]

\* G[node]: the neighbours of node
Neighbors(G, node) == {m \in NodeSet(G) : {node, m} \in G.edges}

RECURSIVE SortedSeq(_)
SortedSeq(S) ==
  IF S = {} THEN <<>>
  ELSE LET m == CHOOSE x \in S : \A y \in S : x <= y
       IN <<m>> \o SortedSeq(S \ {m})

(***************************************************************************)
(* generateErdosRenyi                                                      *)
(***************************************************************************)
\* position of the pair (i, j) in the order the two nested loops visit pairs
PairIndex(N, i, j) == i * N - ((i * (i + 1)) \div 2) + (j - i - 1)

\* the sample random.random() returns for the k-th pair (k from 0)
StreamAt(stream, k) == stream[(k % Len(stream)) + 1]

\* a mistaken order of the blocks: infected, susceptible, recovered
BlockLabelInfectedFirst(i, susceptible, infected) ==
  IF i < infected THEN "infected"
  ELSE IF i < susceptible + infected THEN "susceptible"
  ELSE "recovered"

\* the label given to node i
BlockLabel(i, susceptible, infected) ==
  IF i < susceptible THEN "susceptible"
  ELSE IF i < susceptible + infected THEN "infected"
  ELSE "recovered"

\* a mistaken edge test: random.random() <= p
EdgeTestLe(u, p) == u <= p

\* random.random() < p decides an edge
EdgeTest(u, p) == u < p

\* a mistaken total: the recovered are left out
PopulationNoRecovered(susceptible, infected, recovered) == susceptible + infected

\* N, the total population of the graph
Population(susceptible, infected, recovered) == susceptible + infected + recovered

generateErdosRenyi(susceptible, infected, recovered, p, stream) ==
  LET N == Population(susceptible, infected, recovered)
      V == 0..(N - 1)
  IN [nodes |-> [k \in 1..(IF N > 0 THEN N ELSE 0) |-> k - 1],
      label |-> [i \in V |-> BlockLabel(i, susceptible, infected)],
      edges |-> {{i, j} : <<i, j>> \in
                   {q \in V \X V : q[1] < q[2]
                        /\ EdgeTest(StreamAt(stream, PairIndex(N, q[1], q[2])), p)}}]

(***************************************************************************)
(* findContextToMoveTo                                                     *)
(***************************************************************************)
\* the group that is distance 1 away
Distance1(group_num) ==
  CASE group_num = 1 -> 2
    [] group_num = 2 -> 1
    [] group_num = 3 -> 4
    [] group_num = 4 -> 3
    [] OTHER -> None

\* a group that is distance 2 away
Distance2A(group_num) ==
  CASE group_num = 1 -> 3
    [] group_num = 2 -> 3
    [] group_num = 3 -> 1
    [] group_num = 4 -> 1
    [] OTHER -> None

\* a mistaken table: group 4 is sent to itself
Distance2BSelf(group_num) ==
  CASE group_num = 1 -> 4
    [] group_num = 2 -> 4
    [] group_num = 3 -> 2
    [] group_num = 4 -> 4
    [] OTHER -> None

\* the second group that is distance 2 away
Distance2B(group_num) ==
  CASE group_num = 1 -> 4
    [] group_num = 2 -> 4
    [] group_num = 3 -> 2
    [] group_num = 4 -> 2
    [] OTHER -> None

\* a mistaken first test: sampler < 0.5
Distance1TestStrict(sampler) == sampler < 500

\* sampler <= 0.5
Distance1Test(sampler) == sampler <= 500

findContextToMoveTo(group_num, sampler) ==
  IF Distance1Test(sampler) THEN Distance1(group_num)
  ELSE IF sampler > 500 /\ sampler <= 750 THEN Distance2A(group_num)
  ELSE Distance2B(group_num)

(***************************************************************************)
(* Initial state: the inputs have been typed, validated and converted.     *)
(***************************************************************************)
NoCall == [fn |-> "main"]

\* a mistaken loop test: t < num_iter
LoopTestStrict(time) == time < num_iter

\* while t <= num_iter
LoopTest(time) == time <= num_iter

\* the module's globals and the frame of performGraphIteration before the
\* main loop
Fresh ==
  /\ graphs = <<>>
  /\ global_susceptible = <<>>
  /\ global_infected = <<>>
  /\ global_recovered = <<>>
  /\ timesteps = <<>>
  /\ t = 0
  /\ curr_global_susceptible = 0
  /\ curr_global_infected = 0
  /\ curr_global_recovered = 0
  /\ num_graph = 0
  /\ idx = 0
  /\ local_susceptible = 0
  /\ local_infected = 0
  /\ local_recovered = 0
  /\ nodes_to_remove = <<>>
  /\ new_context = None
  /\ events = 0
  /\ arrived = {}
  /\ infected_in_pass = {}

Init ==
  /\ inp \in {i \in {[gamma |-> q[1], beta |-> q[2], recovery |-> q[3],
                      move_probability |-> q[4], n |-> pop, num_iter |-> it] :
                        q \in TypedPercents, pop \in TypedPopulations,
                        it \in TypedIterations} :
                /\ AcceptsPercent(i.gamma) /\ AcceptsPercent(i.beta)
                /\ AcceptsPercent(i.recovery) /\ AcceptsPercent(i.move_probability)
                /\ AcceptsPopulation(i.n) /\ AcceptsIterations(i.num_iter)}
  /\ gamma = float0(inp.gamma)
  /\ beta = float0(inp.beta)
  /\ recovery = float0(inp.recovery)
  /\ move_probability = float0(inp.move_probability)
  /\ n = int(inp.n)
  /\ num_iter = int(inp.num_iter)
  /\ r_to_s = recovery
  /\ Fresh
  /\ pc = (IF LoopTest(t) THEN "loop" ELSE "done")
  /\ call = NoCall

(***************************************************************************)
(* Main loop, t == 0: initial conditions and the first snapshot.           *)
(***************************************************************************)
Initialise ==
  /\ pc = "loop" /\ t = 0
  /\ \E stream \in EdgeStreams :
       graphs' = [i \in 1..NumGraphs |->
                    [graph |-> generateErdosRenyi(n - 1, 1, 0, gamma, stream),
                     susceptible |-> n - 1,
                     infected |-> 1,
                     recovered |-> 0]]
  /\ global_infected' = Append(global_infected, 4)
  /\ global_recovered' = Append(global_recovered, 0)
  /\ global_susceptible' = Append(global_susceptible, 4 * (n - 1))
  /\ timesteps' = Append(timesteps, 0)
  /\ pc' = "draw"
  /\ UNCHANGED <<paramVars, n, t, currVars, localVars, events, call, histVars>>

\* drawing changes nothing but the loop variable n; then t = t + 1 and the
\* loop test: the body is entered again or the program ends
Draw ==
  /\ pc = "draw"
  /\ n' = IF Len(graphs) > 0 THEN Len(graphs) - 1 ELSE n
  /\ t' = t + 1
  /\ pc' = (IF LoopTest(t') THEN "loop" ELSE "done")
  /\ UNCHANGED <<paramVars, graphs, seriesVars, currVars, localVars, events, call, histVars>>

(***************************************************************************)
(* Main loop, t > 0: the four update passes.                               *)
(***************************************************************************)
BeginStep ==
  /\ pc = "loop" /\ t # 0
  /\ curr_global_susceptible' = 0
  /\ curr_global_infected' = 0
  /\ curr_global_recovered' = 0
  /\ n' = 0
  /\ pc' = "pass"
  /\ UNCHANGED <<paramVars, graphs, seriesVars, t, localVars, events, call, histVars>>

\* performGraphIteration(graphs[n]["graph"], n) is entered
CallPerform ==
  /\ pc = "pass"
  /\ num_graph' = n
  /\ local_susceptible' = graphs[n + 1].susceptible
  /\ local_infected' = graphs[n + 1].infected
  /\ local_recovered' = graphs[n + 1].recovered
  /\ nodes_to_remove' = <<>>
  /\ new_context' = None
  /\ idx' = 1
  /\ infected_in_pass' = {}
  /\ pc' = "scan"
  /\ UNCHANGED <<paramVars, n, graphs, seriesVars, t, currVars, events, call, arrived>>

\* the graph the pass iterates and the node the iteration is at
g == graphs[num_graph + 1].graph
node == g.nodes[idx]
Scanning == pc = "scan" /\ idx <= Len(g.nodes)

\* a mistaken comparison: random.random() <= p
RollsLe(p) == {u <= p : u \in Samples}

\* the outcomes random.random() < p can have
Rolls(p) == {u < p : u \in Samples}

\* a mistaken comparison: random.random() <= move_probability
MoveTestLe(u) == u <= move_probability

\* the comparison of a sample with move_probability
MoveTest(u) == u < move_probability

\* a mistaken insertion: the migrant arrives labelled "susceptible"
AddMigrantRelabelled(gs, dest, nd, lab) ==
  [gs EXCEPT ![dest].graph = add_node(@, nd, "susceptible"),
             ![dest][lab] = @ + 1]

\* a mistaken insertion: the destination counter is not incremented
AddMigrantUncounted(gs, dest, nd, lab) ==
  [gs EXCEPT ![dest].graph = add_node(@, nd, lab)]

\* the destination graph and counter after the move of one node
AddMigrant(gs, dest, nd, lab) ==
  [gs EXCEPT ![dest].graph = add_node(@, nd, lab),
             ![dest][lab] = @ + 1]

ScanMigrate ==
  /\ Scanning
  /\ events < MaxEvents
  /\ \E u \in Samples :
       /\ MoveTest(u)
       /\ \E sampler \in Samples :
            /\ new_context' = findContextToMoveTo(num_graph + 1, sampler)
            /\ arrived' = arrived \cup {<<new_context', node>>}
            /\ graphs' = AddMigrant(graphs, new_context', node, g.label[node])
  /\ nodes_to_remove' = Append(nodes_to_remove, node)
  /\ events' = events + 1
  /\ idx' = idx + 1
  /\ UNCHANGED <<paramVars, n, seriesVars, t, pc, currVars, num_graph,
                 local_susceptible, local_infected, local_recovered, call, infected_in_pass>>

\* the node does not move
Stays == \E u \in Samples : ~MoveTest(u)

ScanRecover ==
  /\ Scanning /\ Stays
  /\ g.label[node] = "infected" /\ TRUE \in Rolls(recovery)
  /\ events < MaxEvents
  /\ events' = events + 1
  /\ graphs' = [graphs EXCEPT ![num_graph + 1].graph.label[node] = "recovered"]
  /\ local_infected' = local_infected - 1
  /\ local_recovered' = local_recovered + 1
  /\ idx' = idx + 1
  /\ UNCHANGED <<paramVars, n, seriesVars, t, pc, currVars, num_graph,
                 local_susceptible, nodes_to_remove, new_context, call, histVars>>

ScanRelapse ==
  /\ Scanning /\ Stays
  /\ g.label[node] = "recovered" /\ TRUE \in Rolls(r_to_s)
  /\ events < MaxEvents
  /\ events' = events + 1
  /\ graphs' = [graphs EXCEPT ![num_graph + 1].graph.label[node] = "susceptible"]
  /\ local_recovered' = local_recovered - 1
  /\ local_susceptible' = local_susceptible + 1
  /\ idx' = idx + 1
  /\ UNCHANGED <<paramVars, n, seriesVars, t, pc, currVars, num_graph,
                 local_infected, nodes_to_remove, new_context, call, histVars>>

\* a mistaken neighbour loop: a successful sample counts the node twice
RECURSIVE NeighborLoopTwice(_, _, _, _, _)
NeighborLoopTwice(G, nd, nbrs, rolls, k) ==
  IF k > Len(nbrs) THEN <<>>
  ELSE IF G.label[nbrs[k]] = "infected" /\ rolls[k] THEN <<nd, nd>>
  ELSE NeighborLoopTwice(G, nd, nbrs, rolls, k + 1)

\* the neighbour loop of a susceptible node from its k-th neighbour on:
\* newly_infected, given the outcome rolls[k] of each neighbour's sample
RECURSIVE NeighborLoop(_, _, _, _, _)
NeighborLoop(G, nd, nbrs, rolls, k) ==
  IF k > Len(nbrs) THEN <<>>
  ELSE IF G.label[nbrs[k]] = "infected" /\ rolls[k] THEN <<nd>>
  ELSE NeighborLoop(G, nd, nbrs, rolls, k + 1)

\* for x in newly_infected: g.nodes[x]['label'] = "infected"
RECURSIVE ApplyInfections(_, _)
ApplyInfections(G, newly_infected) ==
  IF newly_infected = <<>> THEN G
  ELSE ApplyInfections([G EXCEPT !.label[Head(newly_infected)] = "infected"],
                       Tail(newly_infected))

\* newly_infected after the neighbour loop, for every outcome of its samples
NeighborLoopResults(G, nd) ==
  UNION {{NeighborLoop(G, nd, nbrs, rolls, 1) : rolls \in [1..Len(nbrs) -> Rolls(beta)]} :
           nbrs \in {SortedSeq(Neighbors(G, nd))}}

ScanSusceptible ==
  /\ Scanning /\ Stays
  /\ g.label[node] = "susceptible"
  /\ \E newly_infected \in NeighborLoopResults(g, node) :
       /\ events + Len(newly_infected) <= MaxEvents
       /\ events' = events + Len(newly_infected)
       /\ infected_in_pass' = infected_in_pass
                                 \cup {newly_infected[k] : k \in 1..Len(newly_infected)}
       /\ local_susceptible' = local_susceptible - Len(newly_infected)
       /\ local_infected' = local_infected + Len(newly_infected)
       /\ graphs' = [graphs EXCEPT ![num_graph + 1].graph =
                                      ApplyInfections(@, newly_infected)]
  /\ idx' = idx + 1
  /\ UNCHANGED <<paramVars, n, seriesVars, t, pc, currVars, num_graph,
                 local_recovered, nodes_to_remove, new_context, call, arrived>>

\* an infected node that does not recover, a recovered node that does not
\* relapse: no branch is taken
ScanNone ==
  /\ Scanning /\ Stays
  /\ \/ g.label[node] = "infected" /\ FALSE \in Rolls(recovery)
     \/ g.label[node] = "recovered" /\ FALSE \in Rolls(r_to_s)
  /\ idx' = idx + 1
  /\ UNCHANGED <<paramVars, n, graphs, seriesVars, t, pc, currVars, num_graph,
                 local_susceptible, local_infected, local_recovered,
                 nodes_to_remove, new_context, events, call, histVars>>

\* a mistaken removal loop: the nodes are removed and no count is decremented
RECURSIVE RemoveLoopUncounted(_, _)
RemoveLoopUncounted(st, rem) ==
  IF rem = <<>> THEN st
  ELSE RemoveLoopUncounted([st EXCEPT !.graph = remove_node(@, Head(rem))],
                           Tail(rem))

\* the removal loop: the graph and the local counts after removing the
\* nodes of rem in order
RECURSIVE RemoveLoop(_, _)
RemoveLoop(st, rem) ==
  IF rem = <<>> THEN st
  ELSE LET nd == Head(rem)
           lab == st.graph.label[nd]
       IN RemoveLoop([graph |-> remove_node(st.graph, nd),
                      susceptible |-> st.susceptible - (IF lab = "susceptible" THEN 1 ELSE 0),
                      infected |-> st.infected - (IF lab = "infected" THEN 1 ELSE 0),
                      recovered |-> st.recovered - (IF lab = "recovered" THEN 1 ELSE 0)],
                     Tail(rem))

\* a mistaken loop: the passes stop after the first community
MorePassesNone(k) == FALSE

\* for n in range(len(graphs)): another community follows community k
MorePasses(k) == k + 1 < Len(graphs)

\* the end of performGraphIteration: removals, the write-back of the local
\* counts, and the caller's accumulation of the community's counts
ReturnPerform ==
  /\ pc = "scan" /\ idx > Len(g.nodes)
  /\ \E st \in {RemoveLoop([graph |-> g,
                             susceptible |-> local_susceptible,
                             infected |-> local_infected,
                             recovered |-> local_recovered], nodes_to_remove)} :
        /\ graphs' = [graphs EXCEPT ![num_graph + 1] = st]
        /\ curr_global_susceptible' = curr_global_susceptible + st.susceptible
        /\ curr_global_infected' = curr_global_infected + st.infected
        /\ curr_global_recovered' = curr_global_recovered + st.recovered
  /\ local_susceptible' = 0
  /\ local_infected' = 0
  /\ local_recovered' = 0
  /\ nodes_to_remove' = <<>>
  /\ new_context' = None
  /\ idx' = 0
  /\ infected_in_pass' = {}
  /\ IF MorePasses(n)
       THEN n' = n + 1 /\ pc' = "pass"
       ELSE n' = n /\ pc' = "regen"
  /\ UNCHANGED <<paramVars, seriesVars, t, num_graph, events, call, arrived>>

(***************************************************************************)
(* Main loop, t > 0: regeneration of the graphs and the snapshot.          *)
(***************************************************************************)
Regenerate ==
  /\ pc = "regen"
  /\ \E stream \in EdgeStreams :
       graphs' = [i \in 1..Len(graphs) |->
                    [graphs[i] EXCEPT !.graph =
                       generateErdosRenyi(graphs[i].susceptible, graphs[i].infected,
                                          graphs[i].recovered, gamma, stream)]]
  /\ n' = Len(graphs) - 1
  /\ global_susceptible' = Append(global_susceptible, curr_global_susceptible)
  /\ global_infected' = Append(global_infected, curr_global_infected)
  /\ global_recovered' = Append(global_recovered, curr_global_recovered)
  /\ timesteps' = Append(timesteps, t)
  /\ arrived' = {}
  /\ pc' = "draw"
  /\ UNCHANGED <<paramVars, t, currVars, localVars, events, call, infected_in_pass>>

Next ==
  \/ ScanNone
  \/ ScanSusceptible
  \/ ScanRecover
  \/ ScanRelapse
  \/ ScanMigrate
  \/ ReturnPerform
  \/ CallPerform
  \/ Regenerate
  \/ Draw
  \/ BeginStep
  \/ Initialise

Spec == Init /\ [][Next]_vars

(***************************************************************************)
(* findContextToMoveTo called on its own, for every group and sample.      *)
(***************************************************************************)
mainVars == <<paramVars, n, graphs, seriesVars, t, currVars, localVars, events, histVars>>

\* no simulation is running
NoRun ==
  /\ inp = <<>>
  /\ gamma = 0 /\ beta = 0 /\ recovery = 0 /\ move_probability = 0
  /\ r_to_s = 0 /\ n = 0 /\ num_iter = 0
  /\ Fresh

FindArgs ==
  [fn : {"findContextToMoveTo"}, group_num : 1..NumGraphs, sampler : FindSamples,
   result : {None}]

FindInit ==
  /\ NoRun
  /\ pc = "call"
  /\ call \in FindArgs

FindCall ==
  /\ pc = "call" /\ call.fn = "findContextToMoveTo"
  /\ call' = [call EXCEPT !.result = findContextToMoveTo(call.group_num, call.sampler)]
  /\ pc' = "returned"
  /\ UNCHANGED mainVars

FindNext == FindCall

SpecFind == FindInit /\ [][FindNext]_vars

(***************************************************************************)
(* generateErdosRenyi called on its own.                                   *)
(***************************************************************************)
\* the samples of the edge loop: every stream of one or two samples
GenStreams ==
  {<<u>> : u \in {0, 99, 100, 999}} \cup {<<u, v>> : u, v \in {0, 99, 100, 999}}

GenArgs ==
  [fn : {"generateErdosRenyi"}, susceptible : 0..MaxCount, infected : 0..MaxCount,
   recovered : 0..MaxCount, p : GenProbs, stream : GenStreams, result : {EmptyGraph}]

GenInit ==
  /\ NoRun
  /\ pc = "call"
  /\ call \in GenArgs

GenCall ==
  /\ pc = "call" /\ call.fn = "generateErdosRenyi"
  /\ call' = [call EXCEPT !.result =
                 generateErdosRenyi(call.susceptible, call.infected, call.recovered,
                                    call.p, call.stream)]
  /\ pc' = "returned"
  /\ UNCHANGED mainVars

GenNext == GenCall

SpecGen == GenInit /\ [][GenNext]_vars
(***************************************************************************)
(* Properties.                                                             *)
(***************************************************************************)
Communities == 1..Len(graphs)

\* the step for timestep t has completed: the initialisation for t = 0, the
\* four passes, the regeneration and the snapshot for t >= 1
StepDone == pc = "draw"

Total(i) == graphs[i].susceptible + graphs[i].infected + graphs[i].recovered

RECURSIVE SumOver(_, _)
SumOver(field, k) ==
  IF k = 0 THEN 0 ELSE SumOver(field, k - 1) + graphs[k][field]

\* the population typed for each local context
TypedPop == int(inp.n)

\* C1: when the step for a timestep has completed, susceptible + infected +
\* recovered of every community equals the number of nodes of its graph.
C1_CountsMatchNodes ==
  StepDone => \A i \in Communities : Total(i) = Len(graphs[i].graph.nodes)

\* a step in which a community has gained a member has completed
C1_Witness ==
  /\ StepDone /\ t >= 1
  /\ \E i \in Communities :
       Total(i) > TypedPop /\ Total(i) = Len(graphs[i].graph.nodes)

\* C2: the global snapshot appended for timestep t equals, compartment by
\* compartment, the sum over the communities of their counts when the step
\* for t has completed.
C2_SnapshotIsSum ==
  StepDone =>
    /\ global_susceptible[t + 1] = SumOver("susceptible", Len(graphs))
    /\ global_infected[t + 1] = SumOver("infected", Len(graphs))
    /\ global_recovered[t + 1] = SumOver("recovered", Len(graphs))

\* C3: when a step has completed, every community's susceptible, infected
\* and recovered counts are non-negative, for every accepted population
\* (0 included).
C3_CountsNonNegative ==
  StepDone =>
    \A i \in Communities :
      /\ graphs[i].susceptible >= 0
      /\ graphs[i].infected >= 0
      /\ graphs[i].recovered >= 0

\* the nodes of every graph
AllNodes == [i \in Communities |-> NodeSet(graphs[i].graph)]

\* C4: with move_probability = 0 every community's total is, after every
\* step, what it was at t = 0, and the update pass neither inserts a node
\* into a graph nor removes one.
C4_NoMoveKeepsPopulation ==
  /\ [](move_probability = 0 /\ StepDone =>
          \A i \in Communities : Total(i) = (TypedPop - 1) + 1 + 0)
  /\ [][move_probability = 0 /\ pc = "scan" => AllNodes' = AllNodes]_vars

\* with move_probability = 0, a step in which a compartment changed has
\* completed
C4_Witness ==
  /\ move_probability = 0 /\ StepDone /\ t >= 1 /\ events >= 1
  /\ \E i \in Communities : graphs[i].infected # 1

\* the counts of every community and every entry of the global series are
\* those of t = 0
Frozen ==
  /\ \A i \in Communities :
       /\ graphs[i].susceptible = TypedPop - 1
       /\ graphs[i].infected = 1
       /\ graphs[i].recovered = 0
  /\ \A k \in 1..Len(timesteps) :
       /\ global_susceptible[k] = global_susceptible[1]
       /\ global_infected[k] = global_infected[1]
       /\ global_recovered[k] = global_recovered[1]

\* C5 as stated: with beta = 0 and recovery = 0 all compartment counts
\* after every step equal their values at t = 0, whatever move_probability.
C5_FrozenWhateverMove ==
  beta = 0 /\ recovery = 0 /\ StepDone => Frozen

\* C5 as amended: with beta = 0 and recovery = 0 the sum over the
\* communities of each compartment count is, after every step, what it was
\* at t = 0; with move_probability = 0 as well, every community's counts
\* and every entry of the global series equal their values at t = 0.
C5_FrozenTotals ==
  beta = 0 /\ recovery = 0 /\ StepDone =>
    /\ SumOver("susceptible", Len(graphs)) = NumGraphs * (TypedPop - 1)
    /\ SumOver("infected", Len(graphs)) = NumGraphs
    /\ SumOver("recovered", Len(graphs)) = 0
    /\ (move_probability = 0 => Frozen)

\* with beta = 0 and recovery = 0, a step in which a node moved has
\* completed
C5_Witness ==
  /\ beta = 0 /\ recovery = 0 /\ StepDone /\ t >= 1 /\ events >= 1
  /\ \E i \in Communities : Total(i) # TypedPop

\* C6: with contact probability 100%, infection probability 100%, recovery
\* rate 0, move probability 0 and n >= 1, after one step every community
\* has infected = n, susceptible = 0 and recovered = 0.
C6_AllInfectedAfterOneStep ==
  /\ inp.gamma = <<1, 0, 0>> /\ inp.beta = <<1, 0, 0>>
  /\ inp.recovery = <<0>> /\ inp.move_probability = <<0>>
  /\ TypedPop >= 1 /\ StepDone /\ t = 1
  => \A i \in Communities :
       /\ graphs[i].infected = TypedPop
       /\ graphs[i].susceptible = 0
       /\ graphs[i].recovered = 0

\* findContextToMoveTo has returned
FindReturned == pc = "returned" /\ call.fn = "findContextToMoveTo"

\* C7: for every group 1..4 and every sample, findContextToMoveTo returns a
\* group of 1..4 other than the one it was given.
C7_NeverSource ==
  FindReturned =>
    /\ call.result \in 1..NumGraphs
    /\ call.result # call.group_num

\* the call for group 4 with a sample of the last branch has returned
C7_Witness ==
  FindReturned /\ call.group_num = 4 /\ call.sampler = 999 /\ call.result = 2

\* the pairing the claim gives: siblings, then (1,3)/(2,4), then (1,4)/(2,3)
ClaimedPairing(group_num, sampler) ==
  IF sampler <= 500 THEN <<2, 1, 4, 3>>[group_num]
  ELSE IF sampler <= 750 THEN <<3, 4, 1, 2>>[group_num]
  ELSE <<4, 3, 2, 1>>[group_num]

\* C8 as stated: each of the three branches is a symmetric pairing:
\* 1<->2 and 3<->4, then 1<->3 and 2<->4, then 1<->4 and 2<->3.
C8_SymmetricPairing ==
  FindReturned => call.result = ClaimedPairing(call.group_num, call.sampler)

\* the table the code implements
ActualTable(group_num, sampler) ==
  IF sampler <= 500 THEN <<2, 1, 4, 3>>[group_num]
  ELSE IF sampler <= 750 THEN <<3, 3, 1, 1>>[group_num]
  ELSE <<4, 4, 2, 2>>[group_num]

\* the sibling pair of a group: {1, 2} or {3, 4}
SiblingPair(group_num) == IF group_num <= 2 THEN {1, 2} ELSE {3, 4}

\* C8 as amended: the u <= 0.5 branch maps 1<->2 and 3<->4; the
\* 0.5 < u <= 0.75 branch maps 1->3, 2->3, 3->1, 4->1; the u > 0.75 branch
\* maps 1->4, 2->4, 3->2, 4->2.  Only the first branch is a symmetric
\* pairing; the other two send a group to a group of the other sibling pair.
C8_ActualMapping ==
  FindReturned =>
    /\ call.result = ActualTable(call.group_num, call.sampler)
    /\ (call.sampler <= 500 => call.result \in SiblingPair(call.group_num))
    /\ (call.sampler > 500 => call.result \notin SiblingPair(call.group_num))

\* the call for group 2 at the sample 0.5 has returned its sibling
C8_Witness ==
  FindReturned /\ call.group_num = 2 /\ call.sampler = 500 /\ call.result = 1

\* generateErdosRenyi has returned
GenReturned == pc = "returned" /\ call.fn = "generateErdosRenyi"

\* C9: generateErdosRenyi returns a graph on the nodes 0..N-1 with no edge
\* when p = 0 and with every pair i < j joined when p = 1, for every N >= 0;
\* for N = 0 it returns the empty graph.
C9_EdgesAtZeroAndOne ==
  GenReturned =>
    LET N == call.susceptible + call.infected + call.recovered
        G == call.result
    IN /\ NodeSet(G) = 0..(N - 1) /\ Len(G.nodes) = N
       /\ (call.p = 0 => G.edges = {})
       /\ (call.p = 1000 =>
             \A i, j \in 0..(N - 1) : i < j => {i, j} \in G.edges)
       /\ (call.p = 1000 => Cardinality(G.edges) = (N * (N - 1)) \div 2)
       /\ (N = 0 => G.nodes = <<>> /\ G.edges = {})

\* a call with p = 1 and at least three nodes has returned
C9_Witness ==
  /\ GenReturned /\ call.p = 1000
  /\ Len(call.result.nodes) >= 3
  /\ Cardinality(call.result.edges) >= 3

\* s is an initial segment of r
IsPrefix(s, r) == Len(s) <= Len(r) /\ SubSeq(r, 1, Len(s)) = s

\* more than the steps one update pass can take
PassWork == 2 * NumGraphs * (TypedPop + 1) + 2

\* more than the steps one timestep can take
StepWork == NumGraphs * PassWork + 3

\* a bound on the steps the run has left; 0 when it has ended
StepsLeft ==
  CASE pc = "done" -> 0
    [] pc = "loop" -> (num_iter + 1 - t) * StepWork
    [] pc = "pass" -> (num_iter - t) * StepWork + 2 + (NumGraphs - n) * PassWork
    [] pc = "scan" -> (num_iter - t) * StepWork + 2
                        + (NumGraphs - num_graph - 1) * PassWork
                        + 1 + (Len(g.nodes) + 1 - idx)
    [] pc = "regen" -> (num_iter - t) * StepWork + 2
    [] pc = "draw" -> (num_iter - t) * StepWork + 1

\* C10: a run with iteration count k ends (until it has ended a step can
\* be taken, and every step lowers a non-negative bound on the steps left),
\* having processed exactly the timesteps 0..k: timesteps is then
\* <<0, ..., k>> and each global series has k + 1 entries; the series are
\* only appended to; the entry for timestep 0 is (4 * (n - 1), 4, 0).
C10_RunsExactlyTheIterations ==
  /\ [](StepsLeft >= 0 /\ (pc # "done" => ENABLED Next))
  /\ [](pc = "done" =>
          /\ timesteps = [k \in 1..(num_iter + 1) |-> k - 1]
          /\ Len(global_susceptible) = num_iter + 1
          /\ Len(global_infected) = num_iter + 1
          /\ Len(global_recovered) = num_iter + 1)
  /\ [](Len(timesteps) >= 1 =>
          /\ global_susceptible[1] = 4 * (TypedPop - 1)
          /\ global_infected[1] = 4
          /\ global_recovered[1] = 0)
  /\ [][/\ StepsLeft' < StepsLeft
        /\ IsPrefix(timesteps, timesteps')
        /\ IsPrefix(global_susceptible, global_susceptible')
        /\ IsPrefix(global_infected, global_infected')
        /\ IsPrefix(global_recovered, global_recovered')]_vars

\* a run of at least one iteration, in which a compartment changed, has ended
C10_Witness ==
  /\ pc = "done" /\ num_iter >= 1 /\ events >= 1
  /\ Len(timesteps) = num_iter + 1

\* a node of the scanned graph was labelled infected earlier in this pass
\* and carries that label
NewlyInfected(m) == m \in infected_in_pass /\ g.label[m] = "infected"

\* C11: within one update pass, the infection check of a susceptible node
\* never finds among its neighbours, labelled infected, a node that became
\* infected during that pass.
C11_InfectionsStaged ==
  Scanning /\ g.label[node] = "susceptible" =>
    \A m \in Neighbors(g, node) : ~NewlyInfected(m)

\* a step in which the scanned node is one inserted into its graph by an
\* earlier pass of the same timestep
ScansArrival ==
  /\ Scanning /\ idx' = idx + 1
  /\ <<num_graph + 1, node>> \in arrived

\* C12: across the four update passes of one timestep no individual is
\* scanned in more than one pass: a pass never scans a node that another
\* pass of the same timestep has inserted into its graph.
C12_ScannedOncePerStep == [][~ScansArrival]_vars

\* a step in which a node is scheduled to move
Migrates == Scanning /\ nodes_to_remove' = Append(nodes_to_remove, node)

\* C13: a migration inserts the individual into the destination graph as a
\* new node: the destination gains exactly one node, and every node it
\* already had keeps its label and its edges.
C13_MigrantIsNewNode ==
  [][Migrates =>
       LET dest == graphs[new_context'].graph
           after == graphs'[new_context'].graph
       IN /\ Len(after.nodes) = Len(dest.nodes) + 1
          /\ \A x \in NodeSet(dest) : after.label[x] = dest.label[x]
          /\ after.edges = dest.edges]_vars

Labels == {"susceptible", "infected", "recovered"}

\* the index in graphs of the community whose pass is running
src == num_graph + 1

\* the counters of community i
Counters(i) ==
  [lab \in Labels |-> graphs[i][lab]]

\* the counters of community i after the step
CountersAfter(i) ==
  [lab \in Labels |-> graphs'[i][lab]]

\* the local counters of the running pass
LocalCounters ==
  [lab \in Labels |->
     CASE lab = "susceptible" -> local_susceptible
       [] lab = "infected" -> local_infected
       [] lab = "recovered" -> local_recovered]

\* the nodes scheduled for removal
Scheduled == {nodes_to_remove[k] : k \in 1..Len(nodes_to_remove)}

\* the pass returns: the removal loop and the write-back
Returns == pc = "scan" /\ pc' # "scan"

\* C14: a node selected for migration undergoes no recovery, relapse or
\* infection in that pass and is moved with its label unchanged: scheduling
\* increments the destination's counter of the node's label and no other
\* counter, and leaves the source graph, its counters and the local counts
\* as they are; the node's label does not change between scheduling and
\* removal; removal decrements the source's count of that label, and the
\* node is absent from the source graph when the pass ends.
C14_MigrantKeepsLabel ==
  /\ [][Migrates =>
          LET lab == g.label[node]
              dest == new_context'
          IN /\ dest \in Communities \ {src}
             /\ graphs'[dest].graph.label[node] = lab
             /\ CountersAfter(dest) = [Counters(dest) EXCEPT ![lab] = @ + 1]
             /\ graphs'[src] = graphs[src]
             /\ LocalCounters' = LocalCounters
             /\ \A i \in Communities \ {src, dest} : graphs'[i] = graphs[i]]_vars
  /\ [][pc = "scan" /\ pc' = "scan" =>
          /\ Scheduled \subseteq NodeSet(g')
          /\ \A x \in Scheduled : g'.label[x] = g.label[x]]_vars
  /\ [][Returns =>
          /\ \A lab \in Labels :
               graphs'[src][lab] =
                 LocalCounters[lab]
                   - Cardinality({x \in Scheduled : g.label[x] = lab})
          /\ NodeSet(graphs'[src].graph) = NodeSet(g) \ Scheduled
          /\ \A x \in NodeSet(g) \ Scheduled :
               graphs'[src].graph.label[x] = g.label[x]]_vars

\* a pass in which an infected node moved has ended: its community has
\* lost a member
C14_Witness ==
  /\ pc \in {"pass", "regen"} /\ t >= 1
  /\ \E q \in arrived : graphs[q[1]].graph.label[q[2]] = "infected"
  /\ graphs[src].infected = 0
  /\ Len(graphs[src].graph.nodes) < TypedPop

\* a pass begins: performGraphIteration is entered for community n
Enters == pc = "pass" /\ pc' = "scan"

\* the individuals the counters stand for: the counters of every community,
\* with the local counts less the scheduled removals for the community
\* whose pass is running
RECURSIVE Standing(_)
Standing(k) ==
  IF k = 0 THEN 0
  ELSE Standing(k - 1)
       + (IF pc = "scan" /\ k = src
            THEN local_susceptible + local_infected + local_recovered
                 - Len(nodes_to_remove)
            ELSE Total(k))

\* C15: a migrant sent by the pass of community i to community j is
\* counted in j during i's pass (j is never i); when j's own pass begins,
\* every node inserted into j in this timestep is in j's graph and the
\* local counts are j's counters as they then stand; while j's pass runs
\* nothing writes j's counters, and the write-back of a pass writes the
\* counters of no other community, so no increment is overwritten: at every
\* moment the counters stand for 4 * n individuals.
C15_NoLostUpdate ==
  /\ [][Migrates =>
          LET lab == g.label[node]
              dest == new_context'
          IN /\ dest # src
             /\ node \in NodeSet(graphs'[dest].graph)
             /\ graphs'[dest][lab] = graphs[dest][lab] + 1
             /\ <<dest, node>> \in arrived']_vars
  /\ [][Enters =>
          /\ LocalCounters' = Counters(n + 1)
          /\ graphs' = graphs
          /\ \A q \in arrived :
               q[1] = n + 1 => q[2] \in NodeSet(graphs[n + 1].graph)]_vars
  /\ [][pc = "scan" /\ pc' = "scan" => CountersAfter(src) = Counters(src)]_vars
  /\ [][Returns =>
          \A i \in Communities \ {src} : graphs'[i] = graphs[i]]_vars
  /\ [](graphs # <<>> => Standing(Len(graphs)) = NumGraphs * TypedPop)

\* the four passes of a timestep have ended; community 1 has received a
\* node from a community processed after it, community 4 one from a
\* community processed before it, and both still count it
C15_Witness ==
  /\ pc = "regen"
  /\ \E q \in arrived : q[1] = 1
  /\ \E q \in arrived : q[1] = NumGraphs
  /\ Total(1) = TypedPop + 1
  /\ Total(NumGraphs) = TypedPop + 1

\* the graphs are regenerated
Regenerates == pc = "regen" /\ pc' # "regen"

\* the largest of a and 0
AtLeastZero(a) == IF a > 0 THEN a ELSE 0

\* C16: in every step with t >= 1 the graphs are regenerated only when the
\* passes of all four communities have returned, in the order 0..3; while
\* the passes run no graph gains an edge; the regeneration leaves every
\* counter as it stands after the four passes and builds each community's
\* graph from those counters: as many nodes as the counters say, of which
\* the first susceptible ones are labelled susceptible and the next
\* infected ones infected.
C16_RegenerationAfterAllPasses ==
  /\ [][Enters => num_graph' = n /\ (n = 0 \/ num_graph = n - 1)]_vars
  /\ [][pc # "regen" /\ pc' = "regen" =>
          /\ Returns
          /\ t >= 1
          /\ num_graph = NumGraphs - 1]_vars
  /\ [][(pc = "pass" \/ pc = "scan") =>
          \A i \in Communities :
            graphs'[i].graph.edges \subseteq graphs[i].graph.edges]_vars
  /\ [][Regenerates =>
          \A i \in Communities :
            LET G == graphs'[i].graph
            IN /\ CountersAfter(i) = Counters(i)
               /\ G.nodes = [k \in 1..AtLeastZero(Total(i)) |-> k - 1]
               /\ \A x \in NodeSet(G) :
                    /\ G.label[x] = "susceptible" <=> x < graphs[i].susceptible
                    /\ G.label[x] = "infected" <=>
                         /\ x >= graphs[i].susceptible
                         /\ x < graphs[i].susceptible + graphs[i].infected]_vars

\* the graphs have been regenerated after a step in which community 1
\* received a node from a community processed after it
C16_Witness ==
  /\ StepDone /\ t >= 1
  /\ Total(1) = TypedPop + 1
  /\ Len(graphs[1].graph.nodes) = TypedPop + 1
  /\ \E i \in Communities : Total(i) = TypedPop - 1

\* one node is scanned
Scans == Scanning /\ idx' = idx + 1

\* the labels of the scanned graph other than that of the scanned node
\* are left as they are, and the graph keeps its nodes and edges
OnlyNodeRelabelled ==
  /\ g'.nodes = g.nodes /\ g'.edges = g.edges
  /\ \A x \in NodeSet(g) \ {node} : g'.label[x] = g.label[x]

\* the scanned node goes from label a to label b, and the local count of a
\* decreases by 1 and that of b increases by 1
Transition(a, b) ==
  /\ g.label[node] = a /\ g'.label[node] = b
  /\ LocalCounters' = [LocalCounters EXCEPT ![a] = @ - 1, ![b] = @ + 1]
  /\ nodes_to_remove' = nodes_to_remove

\* the scanned node takes no branch
NoBranch ==
  /\ g'.label[node] = g.label[node]
  /\ LocalCounters' = LocalCounters
  /\ nodes_to_remove' = nodes_to_remove

\* the scanned node is scheduled to move and nothing else happens to it
MoveBranch ==
  /\ Migrates
  /\ g'.label[node] = g.label[node]
  /\ LocalCounters' = LocalCounters

\* C17: in one update pass each scanned node takes at most one of the
\* branches migrate / recover / relapse / infect, and no other node of the
\* graph is relabelled by its scan; a susceptible node is infected at most
\* once, however many infected neighbours it has: the local susceptible
\* count decreases by at most 1 and the local infected count increases by
\* at most 1.
C17_AtMostOneBranch ==
  /\ [][Scans =>
          /\ OnlyNodeRelabelled
          /\ \/ NoBranch
             \/ MoveBranch
             \/ Transition("infected", "recovered")
             \/ Transition("recovered", "susceptible")
             \/ Transition("susceptible", "infected")]_vars
  /\ [][Scans /\ g.label[node] = "susceptible" =>
          /\ local_susceptible' >= local_susceptible - 1
          /\ local_infected' <= local_infected + 1
          /\ Cardinality(infected_in_pass') <= Cardinality(infected_in_pass) + 1]_vars

\* a susceptible node with two infected neighbours has been infected by
\* its scan
C17_Witness ==
  /\ pc = "scan" /\ idx > 1
  /\ g.nodes[idx - 1] \in infected_in_pass
  /\ g.label[g.nodes[idx - 1]] = "infected"
  /\ Cardinality({m \in Neighbors(g, g.nodes[idx - 1]) :
                    g.label[m] = "infected" /\ m \notin infected_in_pass}) >= 2
  /\ local_infected = graphs[src].infected + 1
  /\ local_susceptible = graphs[src].susceptible - 1

\* C18: when a step has completed, the sum over the four communities of
\* susceptible + infected + recovered is 4 * n, for every move probability,
\* infection probability and recovery rate.
C18_PopulationConserved ==
  StepDone =>
    SumOver("susceptible", Len(graphs)) + SumOver("infected", Len(graphs))
      + SumOver("recovered", Len(graphs)) = NumGraphs * TypedPop

\* the second step has completed; a node has moved and a node has changed
\* compartment
C18_Witness ==
  /\ StepDone /\ t = 2 /\ events >= 2
  /\ \E i \in Communities : Total(i) > TypedPop
  /\ \E i \in Communities : graphs[i].recovered >= 1

\* the place of a label in the order of the blocks
BlockOf(lab) ==
  CASE lab = "susceptible" -> 1
    [] lab = "infected" -> 2
    [] lab = "recovered" -> 3

\* C19: for a population n >= 1, when a step has completed, in every
\* community the nodes are 0..N-1 for N = susceptible + infected +
\* recovered, the nodes labelled susceptible, infected and recovered are as
\* many as the community's counters say, and the labels lie in three
\* contiguous blocks in the order susceptible, infected, recovered.
C19_LabelsAgreeWithCounters ==
  TypedPop >= 1 /\ StepDone =>
    \A i \in Communities :
      LET G == graphs[i].graph
      IN /\ G.nodes = [k \in 1..Total(i) |-> k - 1]
         /\ \A lab \in Labels :
              Cardinality({x \in NodeSet(G) : G.label[x] = lab}) = graphs[i][lab]
         /\ \A x, y \in NodeSet(G) :
              x < y => BlockOf(G.label[x]) <= BlockOf(G.label[y])

\* a step has completed with a community that has a node of each label
C19_Witness ==
  /\ TypedPop >= 1 /\ StepDone /\ t >= 1
  /\ \E i \in Communities :
       /\ graphs[i].susceptible >= 1
       /\ graphs[i].infected >= 1
       /\ graphs[i].recovered >= 1
       /\ graphs[i].graph.label[0] = "susceptible"
       /\ graphs[i].graph.label[Total(i) - 1] = "recovered"
====
